---- MODULE Spec2Model ----
(***************************************************************************)
(* Hunk assembly of diffy (src/diff/mod.rs): build_edit_script collapses   *)
(* an edit script of Equal / Delete / Insert ranges into EditRanges, and   *)
(* to_patch turns them into context-bounded, gap-merged hunks.             *)
(*                                                                         *)
(* Indices are Rust's: 0-based, ranges half-open [start, end).  TLA+       *)
(* sequences are 1-based, so slice[i] of the source is seq[i + 1] here.    *)
(* Every local variable of the two functions is a state variable and pc    *)
(* is the position in the code; one action is one basic block.             *)
(***************************************************************************)
EXTENDS Integers, Sequences, FiniteSets

\* Largest total length (sum of the range lengths) of an edit script.
MaxWeight == 6
\* Largest context_len handed to to_patch.
MaxContext == 2
\* Most lines missing at the end of a line collection (InitMismatch only).
MaxDrop == 1

\* usize::MAX of the narrowest Rust target (16-bit usize); what 0usize - 1
\* wraps to in a build without overflow checks.  Any wider usize behaves the
\* same here: the value only has to exceed every index.
USIZE_MAX == 65535

VARIABLES
    lines1,        \* to_patch argument: lines of the original text
    lines2,        \* to_patch argument: lines of the modified text
    solution,      \* to_patch argument: the edit script, a sequence of DiffRange
    context_len,   \* to_patch argument
    pc,            \* position in the code
    diff_i,        \* build_edit_script: position of `for diff in solution`
    idx_a,         \* build_edit_script: idx_a
    idx_b,         \* build_edit_script: idx_b
    b_script,      \* build_edit_script: `script`, an Option (<<>> is None)
    edit_script,   \* build_edit_script's result, to_patch's edit_script
    idx,           \* to_patch: idx
    script,        \* to_patch: `script`, the EditRange being emitted
    start1,        \* to_patch: start1
    start2,        \* to_patch: start2
    end1,          \* to_patch: end1
    end2,          \* to_patch: end2
    lines,         \* to_patch: `lines`, the Line list of the hunk being built
    start1_next,   \* to_patch: start1_next
    hunks,         \* to_patch: hunks
    wrapped        \* TRUE once a usize subtraction has wrapped around

vars == <<lines1, lines2, solution, context_len, pc, diff_i, idx_a, idx_b,
          b_script, edit_script, idx, script, start1, start2, end1, end2,
          lines, start1_next, hunks, wrapped>>

inputs == <<lines1, lines2, solution, context_len>>
build_locals == <<diff_i, idx_a, idx_b, b_script>>
hunk_locals == <<script, start1, start2, end1, end2, lines, start1_next>>

----------------------------------------------------------------------------
(* Arithmetic and slices *)

\* cmp::min
Min(a, b) == IF a <= b THEN a ELSE b

\* usize::saturating_sub
saturating_sub(a, b) == IF a >= b THEN a - b ELSE 0

\* The outcomes of the usize subtraction a - b: the difference, or on
\* underflow a panic (overflow checks on) or the wrapped value (checks off).
USub(a, b) ==
    IF a >= b
    THEN {[kind |-> "ok", val |-> a - b]}
    ELSE {[kind |-> "panic", val |-> 0],
          [kind |-> "wrap", val |-> (USIZE_MAX + 1 + a) - b]}

\* ops::Range<usize>
Range(s, e) == [start |-> s, end |-> e]

\* slice.get(range).into_iter().flatten(): the sub-slice, or nothing when the
\* range is not inside the slice (get returns None).
Get(s, r) ==
    IF r.start <= r.end /\ r.end <= Len(s)
    THEN SubSeq(s, r.start + 1, r.end)
    ELSE <<>>

\* Line::Context / Line::Delete / Line::Insert over the elements of a slice
Lines(tag, s) == [i \in 1..Len(s) |-> [tag |-> tag, val |-> s[i]]]

----------------------------------------------------------------------------
(* The edit script *)

\* DiffRange::Equal(range1, range2), DiffRange::Delete(range),
\* DiffRange::Insert(range); only the lengths of the ranges are read.
Equal(n) == [tag |-> "Equal", old_len |-> n, new_len |-> n]
Delete(n) == [tag |-> "Delete", old_len |-> n, new_len |-> 0]
Insert(n) == [tag |-> "Insert", old_len |-> 0, new_len |-> n]

\* EditRange::new
EditRange(old, new) == [old |-> old, new |-> new]

\* All edit scripts of total length w: every entry non-empty, any order of
\* entries.  An Equal entry of length n counts n.
RECURSIVE ScriptsOfWeight(_)
ScriptsOfWeight(w) ==
    IF w = 0
    THEN {<<>>}
    ELSE UNION {{<<e>> \o s : e \in {Equal(n), Delete(n), Insert(n)},
                              s \in ScriptsOfWeight(w - n)} : n \in 1..w}

Scripts == UNION {ScriptsOfWeight(w) : w \in 0..MaxWeight}

\* The two line collections an edit script partitions.  The i-th line of the
\* original is the value i; a line of the modified text is the value of the
\* original line it is Equal to, and -j when it is the inserted j-th line.
\* So two lines are equal exactly when an Equal entry pairs them.
RECURSIVE Texts(_, _, _, _)
Texts(sol, i, old, new) ==
    IF i > Len(sol)
    THEN [old |-> old, new |-> new]
    ELSE LET e == sol[i]
             o == [j \in 1..e.old_len |-> Len(old) + j]
             n == IF e.tag = "Equal"
                  THEN o
                  ELSE [j \in 1..e.new_len |-> 0 - (Len(new) + j)]
         IN Texts(sol, i + 1, old \o o, new \o n)

OldLines(sol) == Texts(sol, 1, <<>>, <<>>).old
NewLines(sol) == Texts(sol, 1, <<>>, <<>>).new

----------------------------------------------------------------------------
(* build_edit_script *)

\* Mutant of ExtendOld: the end is set from the start instead of extended.
ExtendOld_Overwrite(s, n) == EditRange(Range(s.old.start, s.old.start + n), s.new)

\* Delete arm, `Some(s) => s.old.end += range.len()`
ExtendOld(s, n) == EditRange(Range(s.old.start, s.old.end + n), s.new)

\* Insert arm, `Some(s) => s.new.end += range.len()`
ExtendNew(s, n) == EditRange(s.old, Range(s.new.start, s.new.end + n))

\* Delete arm, `None => script = Some(EditRange::new(idx_a..idx_a + len, idx_b..idx_b))`
NewDelete(a, b, n) == EditRange(Range(a, a + n), Range(b, b))

\* Insert arm, `None => script = Some(EditRange::new(idx_a..idx_a, idx_b..idx_b + len))`
NewInsert(a, b, n) == EditRange(Range(a, a), Range(b, b + n))

\* Equal arm and the code after the loop:
\* `if let Some(script) = script.take() { edit_script.push(script) }`
PushTaken(es, opt) == es \o opt

BuildEqual ==
    /\ pc = "build"
    /\ diff_i <= Len(solution)
    /\ solution[diff_i].tag = "Equal"
    /\ idx_a' = idx_a + solution[diff_i].old_len
    /\ idx_b' = idx_b + solution[diff_i].new_len
    /\ edit_script' = PushTaken(edit_script, b_script)
    /\ b_script' = <<>>
    /\ diff_i' = diff_i + 1
    /\ UNCHANGED <<inputs, pc, idx, hunk_locals, hunks, wrapped>>

BuildDelete ==
    /\ pc = "build"
    /\ diff_i <= Len(solution)
    /\ solution[diff_i].tag = "Delete"
    /\ LET n == solution[diff_i].old_len
       IN /\ b_script' = IF b_script # <<>>
                         THEN <<ExtendOld(b_script[1], n)>>
                         ELSE <<NewDelete(idx_a, idx_b, n)>>
          /\ idx_a' = idx_a + n
    /\ diff_i' = diff_i + 1
    /\ UNCHANGED <<inputs, pc, idx_b, edit_script, idx, hunk_locals, hunks,
                   wrapped>>

BuildInsert ==
    /\ pc = "build"
    /\ diff_i <= Len(solution)
    /\ solution[diff_i].tag = "Insert"
    /\ LET n == solution[diff_i].new_len
       IN /\ b_script' = IF b_script # <<>>
                         THEN <<ExtendNew(b_script[1], n)>>
                         ELSE <<NewInsert(idx_a, idx_b, n)>>
          /\ idx_b' = idx_b + n
    /\ diff_i' = diff_i + 1
    /\ UNCHANGED <<inputs, pc, idx_a, edit_script, idx, hunk_locals, hunks,
                   wrapped>>

\* The loop is over: push the pending EditRange and return to to_patch, which
\* goes on with `let mut hunks = Vec::new(); let mut idx = 0;`.
BuildReturn ==
    /\ pc = "build"
    /\ diff_i > Len(solution)
    /\ edit_script' = PushTaken(edit_script, b_script)
    /\ b_script' = <<>>
    /\ hunks' = <<>>
    /\ idx' = 0
    /\ pc' = "while"
    /\ UNCHANGED <<inputs, diff_i, idx_a, idx_b, hunk_locals, wrapped>>

----------------------------------------------------------------------------
(* to_patch *)

\* Mutant of calc_end: the trailing context is not clipped to what is left.
calc_end_Unclipped(cl, text1_len, text2_len, script1_end, script2_end) ==
    <<script1_end + cl, script2_end + cl>>

calc_end(cl, text1_len, text2_len, script1_end, script2_end) ==
    LET post_context_len ==
            Min(cl, Min(saturating_sub(text1_len, script1_end),
                        saturating_sub(text2_len, script2_end)))
    IN <<script1_end + post_context_len, script2_end + post_context_len>>

\* Mutant of WindowStart: one line of leading context too many.
WindowStart_Wide(edit_start, cl) == saturating_sub(edit_start, cl + 1)

\* `script.old.start.saturating_sub(context_len)`, and the same on the new side
WindowStart(edit_start, cl) == saturating_sub(edit_start, cl)

\* Mutant of PreContext: the window is closed with the old-side start.
PreContext_OldStart(l2, s2, sc) == Lines("Context", Get(l2, Range(s2, sc.old.start)))

\* `for line in lines2.get(start2..script.new.start)`: Line::Context
PreContext(l2, s2, sc) == Lines("Context", Get(l2, Range(s2, sc.new.start)))

\* Mutant of DeleteLines: the new-side range is used on the original.
DeleteLines_NewRange(l1, sc) == Lines("Delete", Get(l1, sc.new))

\* `for line in lines1.get(script.old.clone())`: Line::Delete
DeleteLines(l1, sc) == Lines("Delete", Get(l1, sc.old))

\* `for line in lines2.get(script.new.clone())`: Line::Insert
InsertLines(l2, sc) == Lines("Insert", Get(l2, sc.new))

\* `cmp::min(s.old.start, lines1.len() - 1).saturating_sub(context_len)`,
\* len_m1 being the value of `lines1.len() - 1`
Start1Next(s, len_m1, cl) == saturating_sub(Min(s.old.start, len_m1), cl)

\* Mutant of CanMerge: a window that only touches the tail is merged too.
CanMerge_Inclusive(s1n, e1) == s1n <= e1

\* `if start1_next < end1`
CanMerge(s1n, e1) == s1n < e1

\* `for (_i1, i2) in (script.old.end..s.old.start).zip(script.new.end..s.new.start)`
\* with `if let Some(line) = lines2.get(i2)`: the zip stops with the shorter
\* range and i2 only grows, so the lines found are a prefix of the range.
GapContext(l2, sc, s) ==
    LET n == Min(saturating_sub(s.old.start, sc.old.end),
                 saturating_sub(s.new.start, sc.new.end))
        last == Min(sc.new.end + n, Len(l2))
    IN Lines("Context", SubSeq(l2, sc.new.end + 1, last))

\* `for line in lines2.get(script.new.end..end2)`: Line::Context
PostContext(l2, sc, e2) == Lines("Context", Get(l2, Range(sc.new.end, e2)))

\* Mutant of ReportedRange: an empty range always reports start 0.
ReportedRange_Zero(start, len) ==
    [start |-> IF len > 0 THEN start + 1 ELSE 0, len |-> len]

\* Mutant of ReportedRange: the start is always made 1-based.
ReportedRange_OneBased(start, len) == [start |-> start + 1, len |-> len]

\* `HunkRange::new(if len > 0 { start + 1 } else { start }, len)`
ReportedRange(start, len) ==
    [start |-> IF len > 0 THEN start + 1 ELSE start, len |-> len]

\* `Hunk::new(old_range, new_range, None, lines)`
Hunk(old_range, new_range, ls) ==
    [old_range |-> old_range, new_range |-> new_range, lines |-> ls]

\* `while let Some(mut script) = edit_script.get(idx)`, Some: lines 183-199
HunkOpen ==
    /\ pc = "while"
    /\ idx < Len(edit_script)
    /\ LET s == edit_script[idx + 1]
           e == calc_end(context_len, Len(lines1), Len(lines2),
                         s.old.end, s.new.end)
       IN /\ script' = s
          /\ start1' = WindowStart(s.old.start, context_len)
          /\ start2' = WindowStart(s.new.start, context_len)
          /\ end1' = e[1]
          /\ end2' = e[2]
          /\ lines' = PreContext(lines2, start2', s)
    /\ pc' = "loop"
    /\ UNCHANGED <<inputs, build_locals, edit_script, idx, start1_next, hunks,
                   wrapped>>

\* Head of `loop`: lines 202-210
EmitEdit ==
    /\ pc = "loop"
    /\ lines' = lines \o DeleteLines(lines1, script) \o InsertLines(lines2, script)
    /\ pc' = "peek"
    /\ UNCHANGED <<inputs, build_locals, edit_script, idx, script, start1,
                   start2, end1, end2, start1_next, hunks, wrapped>>

\* `if let Some(s) = edit_script.get(idx + 1)`, None: break
NoNext ==
    /\ pc = "peek"
    /\ idx + 1 >= Len(edit_script)
    /\ pc' = "post"
    /\ UNCHANGED <<inputs, build_locals, edit_script, idx, hunk_locals, hunks,
                   wrapped>>

\* `if let Some(s) = edit_script.get(idx + 1)`, Some: lines 214-215.
\* `lines1.len() - 1` is a plain usize subtraction.
Probe ==
    /\ pc = "peek"
    /\ idx + 1 < Len(edit_script)
    /\ \E o \in USub(Len(lines1), 1) :
         IF o.kind = "panic"
         THEN /\ pc' = "panicked"
              /\ UNCHANGED <<start1_next, wrapped>>
         ELSE /\ start1_next' = Start1Next(edit_script[idx + 2], o.val, context_len)
              /\ wrapped' = (wrapped \/ o.kind = "wrap")
              /\ pc' = "check"
    /\ UNCHANGED <<inputs, build_locals, edit_script, idx, script, start1,
                   start2, end1, end2, lines, hunks>>

\* `if start1_next < end1`, taken: lines 217-238
Merge ==
    /\ pc = "check"
    /\ CanMerge(start1_next, end1)
    /\ LET s == edit_script[idx + 2]
           e == calc_end(context_len, Len(lines1), Len(lines2),
                         s.old.end, s.new.end)
       IN /\ lines' = lines \o GapContext(lines2, script, s)
          /\ end1' = e[1]
          /\ end2' = e[2]
          /\ script' = s
    /\ idx' = idx + 1
    /\ pc' = "loop"
    /\ UNCHANGED <<inputs, build_locals, edit_script, start1, start2,
                   start1_next, hunks, wrapped>>

\* `if start1_next < end1`, not taken: break
NoMerge ==
    /\ pc = "check"
    /\ ~CanMerge(start1_next, end1)
    /\ pc' = "post"
    /\ UNCHANGED <<inputs, build_locals, edit_script, idx, hunk_locals, hunks,
                   wrapped>>

\* After the loop: lines 245-257.  `end1 - start1` and `end2 - start2` are
\* plain usize subtractions.
CloseHunk ==
    /\ pc = "post"
    /\ lines' = lines \o PostContext(lines2, script, end2)
    /\ \E o1 \in USub(end1, start1), o2 \in USub(end2, start2) :
         IF o1.kind = "panic" \/ o2.kind = "panic"
         THEN /\ pc' = "panicked"
              /\ UNCHANGED <<idx, hunks, wrapped>>
         ELSE /\ hunks' = Append(hunks, Hunk(ReportedRange(start1, o1.val),
                                             ReportedRange(start2, o2.val),
                                             lines'))
              /\ wrapped' = (wrapped \/ o1.kind = "wrap" \/ o2.kind = "wrap")
              /\ idx' = idx + 1
              /\ pc' = "while"
    /\ UNCHANGED <<inputs, build_locals, edit_script, script, start1, start2,
                   end1, end2, start1_next>>

\* `while let Some(..) = edit_script.get(idx)`, None: `Patch::new(.., hunks)`
Return ==
    /\ pc = "while"
    /\ idx >= Len(edit_script)
    /\ pc' = "done"
    /\ UNCHANGED <<inputs, build_locals, edit_script, idx, hunk_locals, hunks,
                   wrapped>>

----------------------------------------------------------------------------
(* Specifications *)

\* The state on entry to to_patch, its arguments aside.
Entry ==
    /\ pc = "build"
    /\ diff_i = 1
    /\ idx_a = 0
    /\ idx_b = 0
    /\ b_script = <<>>
    /\ edit_script = <<>>
    /\ idx = 0
    /\ script = EditRange(Range(0, 0), Range(0, 0))
    /\ start1 = 0
    /\ start2 = 0
    /\ end1 = 0
    /\ end2 = 0
    /\ lines = <<>>
    /\ start1_next = 0
    /\ hunks = <<>>
    /\ wrapped = FALSE

\* to_patch as create_patch calls it: a well-formed edit script over the two
\* line collections it partitions, and any context_len.
Init ==
    /\ solution \in Scripts
    /\ context_len \in 0..MaxContext
    /\ lines1 = OldLines(solution)
    /\ lines2 = NewLines(solution)
    /\ Entry

\* to_patch handed line collections that end before the ranges of the edit
\* script do: up to MaxDrop lines are missing at the end of either one.
InitMismatch ==
    /\ solution \in Scripts
    /\ context_len \in 0..MaxContext
    /\ \E d1, d2 \in 0..MaxDrop :
         /\ d1 + d2 > 0
         /\ d1 <= Len(OldLines(solution))
         /\ d2 <= Len(NewLines(solution))
         /\ lines1 = SubSeq(OldLines(solution), 1, Len(OldLines(solution)) - d1)
         /\ lines2 = SubSeq(NewLines(solution), 1, Len(NewLines(solution)) - d2)
    /\ Entry

Next ==
    \/ BuildEqual
    \/ BuildDelete
    \/ BuildInsert
    \/ BuildReturn
    \/ HunkOpen
    \/ EmitEdit
    \/ NoNext
    \/ Probe
    \/ Merge
    \/ NoMerge
    \/ CloseHunk
    \/ Return

Spec == Init /\ [][Next]_vars

SpecMismatch == InitMismatch /\ [][Next]_vars

----------------------------------------------------------------------------
(* What a patch says, read back from the hunks alone *)

Done == pc = "done"

\* The 0-based window [WinStart, WinEnd) a reported HunkRange stands for.
WinStart(r) == IF r.len > 0 THEN r.start - 1 ELSE r.start
WinEnd(r) == WinStart(r) + r.len

\* The values of the lines of ls whose tag is in tags, in order.
Side(ls, tags) ==
    LET keep(l) == l.tag \in tags
        f == SelectSeq(ls, keep)
    IN [i \in 1..Len(f) |-> f[i].val]

\* Number of Context lines before the first / after the last changed line.
Leading(ls) ==
    CHOOSE n \in 0..Len(ls) :
        /\ \A b \in 1..n : ls[b].tag = "Context"
        /\ n = Len(ls) \/ ls[n + 1].tag # "Context"
Trailing(ls) ==
    CHOOSE n \in 0..Len(ls) :
        /\ \A b \in (Len(ls) - n + 1)..Len(ls) : ls[b].tag = "Context"
        /\ n = Len(ls) \/ ls[Len(ls) - n].tag # "Context"

\* Every (hunk, line) position of the patch, and those holding a given Line.
Positions ==
    UNION {{<<a, b>> : b \in 1..Len(hunks[a].lines)} : a \in 1..Len(hunks)}
Occ(tag, v) ==
    {p \in Positions : hunks[p[1]].lines[p[2]] = [tag |-> tag, val |-> v]}
Tagged(tag) == {p \in Positions : hunks[p[1]].lines[p[2]].tag = tag}

\* What the edit script says, read from `solution` alone: the number of old
\* and new elements its first n entries cover, and the 1-based old (new)
\* positions its Delete (Insert) entries cover.
RECURSIVE OldBefore(_, _), NewBefore(_, _)
OldBefore(sol, n) == IF n = 0 THEN 0 ELSE OldBefore(sol, n - 1) + sol[n].old_len
NewBefore(sol, n) == IF n = 0 THEN 0 ELSE NewBefore(sol, n - 1) + sol[n].new_len
DeletedPos ==
    {i \in 1..OldBefore(solution, Len(solution)) :
        \E n \in 1..Len(solution) :
            /\ solution[n].tag = "Delete"
            /\ OldBefore(solution, n - 1) < i
            /\ i <= OldBefore(solution, n)}
InsertedPos ==
    {j \in 1..NewBefore(solution, Len(solution)) :
        \E n \in 1..Len(solution) :
            /\ solution[n].tag = "Insert"
            /\ NewBefore(solution, n - 1) < j
            /\ j <= NewBefore(solution, n)}

\* The maximal runs <<i, j>> of consecutive Delete/Insert entries.
IsEdit(e) == e.tag # "Equal"
Runs ==
    {r \in (1..Len(solution)) \X (1..Len(solution)) :
        /\ r[1] <= r[2]
        /\ \A m \in r[1]..r[2] : IsEdit(solution[m])
        /\ r[1] = 1 \/ ~IsEdit(solution[r[1] - 1])
        /\ r[2] = Len(solution) \/ ~IsEdit(solution[r[2] + 1])}

\* The hunks that carry a changed line of the n-th EditRange.
EditHunks(n) ==
    LET e == edit_script[n]
        olds == {lines1[i + 1] : i \in e.old.start..(e.old.end - 1)}
        news == {lines2[j + 1] : j \in e.new.start..(e.new.end - 1)}
    IN {a \in 1..Len(hunks) :
           \E b \in 1..Len(hunks[a].lines) :
               LET l == hunks[a].lines[b]
               IN \/ l.tag = "Delete" /\ l.val \in olds
                  \/ l.tag = "Insert" /\ l.val \in news}

\* Unchanged lines between the n-th EditRange and the next.
Gap(n) == edit_script[n + 1].old.start - edit_script[n].old.end

----------------------------------------------------------------------------
(* Claims *)

\* C1: every hunk matches the span it reports: its Context and Delete lines,
\* in order, are old[start1..end1), its Context and Insert lines are
\* new[start2..end2), and the reported lengths are end1 - start1 and
\* end2 - start2 of the window to_patch computed for it.
C1_HunkMatchesSpan ==
    /\ \A a \in 1..Len(hunks) :
         LET h == hunks[a]
             s1 == WinStart(h.old_range)
             s2 == WinStart(h.new_range)
         IN /\ s1 >= 0 /\ s1 + h.old_range.len <= Len(lines1)
            /\ s2 >= 0 /\ s2 + h.new_range.len <= Len(lines2)
            /\ Side(h.lines, {"Context", "Delete"})
                   = SubSeq(lines1, s1 + 1, s1 + h.old_range.len)
            /\ Side(h.lines, {"Context", "Insert"})
                   = SubSeq(lines2, s2 + 1, s2 + h.new_range.len)
    /\ (pc \in {"while", "done"} /\ hunks # <<>>) =>
         LET h == hunks[Len(hunks)]
         IN /\ WinStart(h.old_range) = start1
            /\ h.old_range.len = end1 - start1
            /\ WinStart(h.new_range) = start2
            /\ h.new_range.len = end2 - start2

\* C1 witness: a finished patch of two hunks, one of them holding Context,
\* Delete and Insert lines, with the old and new windows at different offsets.
C1_Witness ==
    /\ Done
    /\ Len(hunks) >= 2
    /\ \E a \in 1..Len(hunks) :
         /\ {"Context", "Delete", "Insert"}
                \subseteq {hunks[a].lines[b].tag : b \in 1..Len(hunks[a].lines)}
         /\ hunks[a].old_range.start # hunks[a].new_range.start

\* C2: every old position a Delete entry covers is a Delete line exactly once
\* in the whole patch, every new position an Insert entry covers is an Insert
\* line exactly once; no other line is tagged Delete or Insert, and no
\* deleted or inserted element shows up under another tag.
C2_EditsEmittedOnce ==
    Done =>
        /\ \A i \in DeletedPos :
             /\ Cardinality(Occ("Delete", lines1[i])) = 1
             /\ Occ("Context", lines1[i]) \cup Occ("Insert", lines1[i]) = {}
        /\ \A j \in InsertedPos :
             /\ Cardinality(Occ("Insert", lines2[j])) = 1
             /\ Occ("Context", lines2[j]) \cup Occ("Delete", lines2[j]) = {}
        /\ Cardinality(Tagged("Delete")) = Cardinality(DeletedPos)
        /\ Cardinality(Tagged("Insert")) = Cardinality(InsertedPos)

\* C2 witness: a finished patch in which one edit opened a hunk and another
\* was merged into it, with both deleted and inserted elements.
C2_Witness ==
    /\ Done
    /\ Len(edit_script) > Len(hunks)
    /\ Len(hunks) >= 1
    /\ DeletedPos # {}
    /\ InsertedPos # {}

\* C10: build_edit_script returns one EditRange per maximal run of Delete /
\* Insert entries, in script order; its old (new) range is the union of the
\* run's Delete (Insert) ranges, one of the two is non-empty, it spans no
\* Equal entry, and consecutive EditRanges are the same positive number of
\* elements apart on both sides.  Checked where build_edit_script returns
\* (edit_script is not written afterwards).
C10_CollapsedRuns ==
    (pc = "while" /\ idx = 0) =>
        /\ Len(edit_script) = Cardinality(Runs)
        /\ \A r \in Runs :
             LET n == Cardinality({q \in Runs : q[1] <= r[1]})
             IN /\ edit_script[n].old = Range(OldBefore(solution, r[1] - 1),
                                              OldBefore(solution, r[2]))
                /\ edit_script[n].new = Range(NewBefore(solution, r[1] - 1),
                                              NewBefore(solution, r[2]))
        /\ \A n \in 1..Len(edit_script) :
             /\ edit_script[n].old.start <= edit_script[n].old.end
             /\ edit_script[n].new.start <= edit_script[n].new.end
             /\ \/ edit_script[n].old.start < edit_script[n].old.end
                \/ edit_script[n].new.start < edit_script[n].new.end
             /\ \A m \in 1..Len(solution) :
                  solution[m].tag = "Equal" =>
                      \/ OldBefore(solution, m) <= edit_script[n].old.start
                      \/ edit_script[n].old.end <= OldBefore(solution, m - 1)
        /\ \A n \in 1..(Len(edit_script) - 1) :
             /\ Gap(n) > 0
             /\ Gap(n) = edit_script[n + 1].new.start - edit_script[n].new.end

\* C10 witness: two EditRanges, one of them collapsed from a run that starts
\* with an Insert entry and goes on with a Delete entry.
C10_Witness ==
    /\ pc = "while"
    /\ idx = 0
    /\ Len(edit_script) >= 2
    /\ \E r \in Runs :
         /\ r[1] < r[2]
         /\ solution[r[1]].tag = "Insert"
         /\ solution[r[1] + 1].tag = "Delete"

\* C3: a script of exactly two edits that are 1 <= g <= 2 * context_len
\* unchanged lines apart gives exactly one hunk, which holds both edits and
\* the g lines between them as Context lines.
C3_MergedWithin2k ==
    (Done /\ Len(edit_script) = 2 /\ Gap(1) >= 1 /\ Gap(1) <= 2 * context_len) =>
        /\ Len(hunks) = 1
        /\ EditHunks(1) = {1}
        /\ EditHunks(2) = {1}
        /\ \A i \in edit_script[1].old.end..(edit_script[2].old.start - 1) :
             Cardinality(Occ("Context", lines1[i + 1])) = 1

\* A hunk has context_len Context lines before its first and after its last
\* changed line, fewer only where its window stops at a sequence boundary.
ContextBounded(h) ==
    /\ \/ Leading(h.lines) = context_len
       \/ /\ Leading(h.lines) < context_len
          /\ WinStart(h.old_range) = 0
          /\ WinStart(h.new_range) = 0
    /\ \/ Trailing(h.lines) = context_len
       \/ /\ Trailing(h.lines) < context_len
          /\ \/ WinEnd(h.old_range) = Len(lines1)
             \/ WinEnd(h.new_range) = Len(lines2)

\* C4: two consecutive edits more than 2 * context_len unchanged lines apart
\* are in two different hunks, each with exactly context_len Context lines
\* before its first and after its last edit, fewer only where the window
\* stops at the start or the end of a sequence; with context_len = 0 no hunk
\* has a Context line and no two edits share a hunk.
C4_SeparatedBeyond2k ==
    Done =>
        /\ \A n \in 1..(Len(edit_script) - 1) :
             Gap(n) > 2 * context_len =>
                 /\ EditHunks(n) # {}
                 /\ EditHunks(n + 1) # {}
                 /\ EditHunks(n) \cap EditHunks(n + 1) = {}
                 /\ \A a \in EditHunks(n) \cup EditHunks(n + 1) :
                      ContextBounded(hunks[a])
        /\ context_len = 0 =>
             /\ Tagged("Context") = {}
             /\ Len(hunks) = Len(edit_script)
             /\ \A n \in 1..Len(edit_script) : EditHunks(n) = {n}

\* C4 witness: context_len >= 1 and two edits more than 2 * context_len
\* apart, the later one followed by fewer than context_len lines.
C4_Witness ==
    /\ Done
    /\ context_len >= 1
    /\ \E n \in 1..(Len(edit_script) - 1) :
         /\ Gap(n) > 2 * context_len
         /\ Len(lines1) - edit_script[n + 1].old.end < context_len

\* C5 as claimed: a reported range of length 0 has start 0.
C5_ZeroLengthStartsAtZero ==
    \A a \in 1..Len(hunks) :
        /\ hunks[a].old_range.len = 0 => hunks[a].old_range.start = 0
        /\ hunks[a].new_range.len = 0 => hunks[a].new_range.start = 0

\* C5 amended: a reported range of length 0 has as start the 0-based start
\* of the hunk's window, unshifted: the number of elements of that sequence
\* before the edit.  A range of non-zero length reports that start plus 1.
C5_ZeroLengthStartsAtWindow ==
    (pc \in {"while", "done"} /\ hunks # <<>>) =>
        LET h == hunks[Len(hunks)]
        IN /\ h.old_range.len = 0 =>
                /\ h.old_range.start = start1
                /\ h.old_range.start = script.old.start
           /\ h.old_range.len > 0 => h.old_range.start = start1 + 1
           /\ h.new_range.len = 0 =>
                /\ h.new_range.start = start2
                /\ h.new_range.start = script.new.start
           /\ h.new_range.len > 0 => h.new_range.start = start2 + 1

\* C5 witness: a hunk whose old range has length 0 and a start other than 0.
C5_Witness ==
    \E a \in 1..Len(hunks) :
        /\ hunks[a].old_range.len = 0
        /\ hunks[a].old_range.start > 0

\* C6: no index fault on a well-formed script: no usize subtraction
\* underflows (`lines1.len() - 1` is not evaluated with lines1 empty,
\* `end - start` is not negative), every window computed lies inside its
\* sequence, and to_patch is never stuck before it returns.
C6_NoIndexFault ==
    /\ pc # "panicked"
    /\ ~wrapped
    /\ (pc = "peek" /\ idx + 1 < Len(edit_script)) => Len(lines1) >= 1
    /\ pc \in {"loop", "peek", "check", "post"} =>
         /\ 0 <= start1 /\ start1 <= end1 /\ end1 <= Len(lines1)
         /\ 0 <= start2 /\ start2 <= end2 /\ end2 <= Len(lines2)
    /\ ~Done => ENABLED Next

\* C6 witness: to_patch has returned with a context_len larger than the
\* original is long, after probing a second edit.
C6_Witness ==
    /\ Done
    /\ context_len > Len(lines1)
    /\ Len(edit_script) >= 2
    /\ hunks # <<>>

\* C7: with line collections shorter than the ranges of the edit script,
\* to_patch neither panics nor returns a hunk with fewer lines than its
\* ranges announce.
C7_MismatchNotTolerated ==
    /\ pc # "panicked"
    /\ Done =>
         \A a \in 1..Len(hunks) :
             /\ Len(Side(hunks[a].lines, {"Context", "Delete"}))
                    = hunks[a].old_range.len
             /\ Len(Side(hunks[a].lines, {"Context", "Insert"}))
                    = hunks[a].new_range.len

\* C8: hunks are in sequence order and do not overlap: the window of a hunk
\* ends, on each side, no later than the window of the next hunk starts.
C8_HunksOrdered ==
    \A a \in 1..(Len(hunks) - 1) :
        /\ WinEnd(hunks[a].old_range) <= WinStart(hunks[a + 1].old_range)
        /\ WinEnd(hunks[a].new_range) <= WinStart(hunks[a + 1].new_range)

\* C8 witness: the last of several hunks is a pure insertion at the end of
\* the original, with context_len >= 1.
C8_Witness ==
    /\ Done
    /\ context_len >= 1
    /\ Len(hunks) >= 2
    /\ Len(hunks) = Len(edit_script)
    /\ edit_script[Len(edit_script)].old = Range(Len(lines1), Len(lines1))

\* C9: an empty original and a modified text of M >= 1 lines give one hunk,
\* old range (0,0), new range (1,M), the M lines as Insert lines and nothing
\* else; a script without Delete or Insert entries gives no hunk.
C9_PureInsertionAndIdentity ==
    Done =>
        /\ (Len(lines1) = 0 /\ Len(lines2) >= 1) =>
             hunks = <<[old_range |-> [start |-> 0, len |-> 0],
                        new_range |-> [start |-> 1, len |-> Len(lines2)],
                        lines |-> [j \in 1..Len(lines2) |->
                                      [tag |-> "Insert", val |-> lines2[j]]]]>>
        /\ (\A n \in 1..Len(solution) : solution[n].tag = "Equal") =>
             hunks = <<>>

\* C9 witness: to_patch has returned for an empty original and a modified
\* text of several lines, with a non-zero context_len.
C9_Witness ==
    /\ Done
    /\ Len(lines1) = 0
    /\ Len(lines2) >= 2
    /\ context_len >= 1

====
